---- MODULE Spec2Model ----
(***************************************************************************)
(* Email contacts extractor: the IMAP header scan (extract_contacts.py)    *)
(* and the LinkedIn export parser (linkedin_contacts.py).                  *)
(*                                                                         *)
(* Strings are sequences of one-character strings, so that lower(),        *)
(* len(), split('@') and substring tests are computed, not assumed.        *)
(***************************************************************************)
EXTENDS Integers, Sequences, FiniteSets, TLC

VARIABLES
    owner,        \* self.email_address, as typed on the command line
    contacts,     \* self.contacts: the dict, as the sequence of its entries in insertion order
    obsLog,       \* history: the observations _update_contact has been called with
    lastRaised,   \* history: whether the last _update_contact call raised
    pc,           \* position of main()
    limit,        \* args.limit (0 stands for None)
    folderIdx,    \* scan_all: index of the priority folder being scanned
    scannedFolders, \* scan_all: scanned_folders
    remaining,    \* scan_folder: message ids still to fetch in the selected folder
    scanned,      \* scan_folder: the counter it returns
    reqs,         \* history: every request issued to the mail session
    lastOp,       \* history: the last mail-session method main() ran
    connectCount, \* history: calls of connect()
    disconnectCount, \* history: calls of disconnect()
    hasMail,      \* whether self.mail was assigned (IMAP4_SSL returned)
    loggedIn,     \* whether login succeeded
    fetchCalls,   \* history: number of fetch requests issued
    password,     \* what getpass returned: "unset", "" or "secret"
    caught,       \* which except clause of main() ran: "none", "imap", "other"
    exitCode,     \* exit status of the process (-1 while running)
    fileState,    \* the output file: whether open() ran, and the rows written
    results,      \* the list get_contacts returned last
    threshold,    \* history: min_interactions of the last get_contacts call
    getCalls,     \* history: number of get_contacts calls
    fetched,      \* history: the messages whose headers were fetched with status OK
    counted,      \* history: the messages counted in scanned
    liInput,      \* the export text given to parse_linkedin_export
    liOut         \* what parse_linkedin_export did with it

vars == << owner, contacts, obsLog, lastRaised, pc, limit, folderIdx, scannedFolders,
           remaining, scanned, reqs, lastOp, connectCount, disconnectCount, hasMail,
           loggedIn, fetchCalls, password, caught, exitCode, fileState, results, threshold,
           getCalls, fetched, counted, liInput, liOut >>

mailVars == << pc, limit, folderIdx, scannedFolders, remaining, scanned, reqs, lastOp,
               connectCount, disconnectCount, hasMail, loggedIn, fetchCalls, password, caught,
               exitCode, fileState, fetched, counted >>

liVars == << liInput, liOut >>

rankVars == << results, threshold, getCalls >>

-----------------------------------------------------------------------------
(* Bounds of the model *)

\* SpecAgg: number of _update_contact calls in a behaviour
MaxObs == 2
\* Spec: number of messages the mailbox holds over all folders
MaxMsgs == 2
\* SpecRank: number of entries of the contacts map
MaxContacts == 3
\* SpecRank: largest value of one counter of an entry
MaxCount == 2
\* SpecLinkedIn: number of lines of the export text
MaxLines == 3

-----------------------------------------------------------------------------
(* str methods *)

UpperLetters == << "A","B","C","D","E","F","G","H","I","J","K","L","M",
                   "N","O","P","Q","R","S","T","U","V","W","X","Y","Z" >>
LowerLetters == << "a","b","c","d","e","f","g","h","i","j","k","l","m",
                   "n","o","p","q","r","s","t","u","v","w","x","y","z" >>

\* the lower-case letter of every upper-case letter
LowerTable == [c \in { UpperLetters[i] : i \in 1..Len(UpperLetters) } |->
                  LowerLetters[CHOOSE i \in 1..Len(UpperLetters) : UpperLetters[i] = c]]

\* lower() of one character: other characters stay as they are
LowerChar(c) == IF c \in DOMAIN LowerTable THEN LowerTable[c] ELSE c

\* str.lower()
Lower(s) == [i \in 1..Len(s) |-> LowerChar(s[i])]

\* sub in s
Contains(s, sub) ==
    \E i \in 0..(Len(s) - Len(sub)) :
        \A j \in 1..Len(sub) : s[i + j] = sub[j]

\* s.split('@')[-1]
AfterLastAt(s) ==
    IF \E i \in 1..Len(s) : s[i] = "@"
    THEN LET k == CHOOSE i \in 1..Len(s) :
                      s[i] = "@" /\ \A j \in (i+1)..Len(s) : s[j] # "@"
         IN  SubSeq(s, k + 1, Len(s))
    ELSE s

\* s.strip(chars)
StripChars(s, chars) ==
    LET keep == { i \in 1..Len(s) : s[i] \notin chars } IN
    IF keep = {} THEN << >>
    ELSE SubSeq(s, CHOOSE i \in keep : \A j \in keep : i <= j,
                   CHOOSE i \in keep : \A j \in keep : j <= i)

\* s.strip()
Strip(s) == StripChars(s, {" "})

-----------------------------------------------------------------------------
(* Dates: _parse_date and datetime comparison *)

\* None, where a datetime is expected
NoDate == [kind |-> "none", wall |-> 0, off |-> 0]

\* the strptime formats of _parse_date, in the order they are tried
DateFormats == << [weekday |-> TRUE,  tz |-> TRUE],
                  [weekday |-> FALSE, tz |-> TRUE],
                  [weekday |-> TRUE,  tz |-> FALSE],
                  [weekday |-> FALSE, tz |-> FALSE] >>

\* re.sub(r'\s*\([^)]+\)\s*$', '', date_str)
StripComment(h) == [h EXCEPT !.comment = FALSE]

\* datetime.strptime(date_str.strip(), fmt) succeeds
FormatMatches(h, fmt) ==
    /\ h.text = "rfc"
    /\ ~h.comment
    /\ h.weekday = fmt.weekday
    /\ h.tz = fmt.tz

\* _parse_date(date_str): a Date header is [text, weekday, wall, tz, off, comment]
ParseDate(h) ==
    IF h.text = "empty" THEN NoDate
    ELSE LET d == StripComment(h)
             hits == { i \in 1..Len(DateFormats) : FormatMatches(d, DateFormats[i]) }
         IN  IF hits = {} THEN NoDate
             ELSE LET f == DateFormats[CHOOSE i \in hits : \A j \in hits : i <= j]
                  IN  IF f.tz THEN [kind |-> "aware", wall |-> d.wall, off |-> d.off]
                      ELSE [kind |-> "naive", wall |-> d.wall, off |-> 0]

\* a < b on datetimes raises TypeError
CompareRaises(a, b) == a.kind # b.kind

\* a < b on two aware or two naive datetimes
DateLess(a, b) == (a.wall - a.off) < (b.wall - b.off)

-----------------------------------------------------------------------------
(* ContactExtractor._update_contact *)

\* the defaultdict's factory, with the key the entry is stored under
DefaultContact(k) ==
    [key |-> k, name |-> << >>, email |-> << >>, sent_count |-> 0,
     received_count |-> 0, first_seen |-> NoDate, last_seen |-> NoDate,
     domains |-> {}]

\* position of key k in the dict, 0 when it is absent
IndexOf(cs, k) ==
    IF \E i \in 1..Len(cs) : cs[i].key = k
    THEN CHOOSE i \in 1..Len(cs) : cs[i].key = k
    ELSE 0

HasKey(cs, k) == IndexOf(cs, k) # 0

\* the comparison without lower() on the owner's address
IsOwnAddress_NoLower(email_lower, own) == email_lower = own

\* email_lower == self.email_address.lower()
IsOwnAddress(email_lower, own) == email_lower = Lower(own)

\* the name rule with >= for >
NameReplaces_OnTie(name, stored) ==
    name # << >> /\ (stored = << >> \/ Len(name) >= Len(stored))

\* name and (not contact['name'] or len(name) > len(contact['name']))
NameReplaces(name, stored) ==
    name # << >> /\ (stored = << >> \/ Len(name) > Len(stored))

\* the counters after one observation
BumpCounts(c, is_sent) ==
    IF is_sent THEN [c EXCEPT !.sent_count = @ + 1]
    ELSE [c EXCEPT !.received_count = @ + 1]

\* _update_contact(name, email_addr, date, is_sent) on the dict cs: the dict it
\* leaves, and whether it raised
UpdateContact(cs, own, name, email_addr, date, is_sent) ==
    LET email_lower == Lower(email_addr) IN
    IF IsOwnAddress(email_lower, own)
    THEN [contacts |-> cs, raised |-> FALSE]
    ELSE
    LET cs1 == IF HasKey(cs, email_lower) THEN cs
               ELSE Append(cs, DefaultContact(email_lower))
        i   == IndexOf(cs1, email_lower)
        c1  == [cs1[i] EXCEPT !.email = email_lower]
        c2  == IF NameReplaces(name, c1.name) THEN [c1 EXCEPT !.name = name] ELSE c1
        c3  == BumpCounts(c2, is_sent)
        raises1 == date # NoDate /\ c3.first_seen # NoDate
                   /\ CompareRaises(date, c3.first_seen)
        c4  == IF date # NoDate
                  /\ (c3.first_seen = NoDate \/ DateLess(date, c3.first_seen))
               THEN [c3 EXCEPT !.first_seen = date] ELSE c3
        raises2 == date # NoDate /\ c4.last_seen # NoDate
                   /\ CompareRaises(date, c4.last_seen)
        c5  == IF date # NoDate
                  /\ (c4.last_seen = NoDate \/ DateLess(c4.last_seen, date))
               THEN [c4 EXCEPT !.last_seen = date] ELSE c4
        c6  == [c5 EXCEPT !.domains = @ \cup {AfterLastAt(email_lower)}]
    IN  IF raises1 THEN [contacts |-> [cs1 EXCEPT ![i] = c3], raised |-> TRUE]
        ELSE IF raises2 THEN [contacts |-> [cs1 EXCEPT ![i] = c4], raised |-> TRUE]
        ELSE [contacts |-> [cs1 EXCEPT ![i] = c6], raised |-> FALSE]

-----------------------------------------------------------------------------
(* Inputs the specifications draw from *)

\* --email, as the user typed it
OwnerForms == { << "M","e","@","X" >> }

\* addresses as they stand in headers: the owner's in another letter case, and
\* one correspondent in two letter cases
ObsAddrs == { << "M","E","@","x" >>, << "a","@","y" >>, << "A","@","Y" >> }

\* display names: none, two of equal length, a longer one
ObsNames == { << >>, << "J","o" >>, << "A","l" >>, << "J","o"," ","A" >> }

EmptyDateHeader ==
    [text |-> "empty", weekday |-> FALSE, wall |-> 0, tz |-> FALSE, off |-> 0,
     comment |-> FALSE]
JunkDateHeader ==
    [text |-> "junk", weekday |-> FALSE, wall |-> 0, tz |-> FALSE, off |-> 0,
     comment |-> FALSE]
RfcDateHeader(wd, w, z, o, c) ==
    [text |-> "rfc", weekday |-> wd, wall |-> w, tz |-> z, off |-> o, comment |-> c]

\* Date headers: absent, unparseable, two with an offset (the later wall clock
\* is the earlier instant), one without
DateHeaders ==
    { EmptyDateHeader, JunkDateHeader,
      RfcDateHeader(TRUE, 2, TRUE, 0, TRUE),
      RfcDateHeader(FALSE, 3, TRUE, 2, FALSE),
      RfcDateHeader(TRUE, 2, FALSE, 0, FALSE) }

\* every value _parse_date returns on them
ObsDates == { ParseDate(h) : h \in DateHeaders }

-----------------------------------------------------------------------------
(* States in which a part of the program has not started *)

\* the mail run's state before main() has done anything but parse its arguments
MailFresh ==
    /\ folderIdx = 0
    /\ scannedFolders = {}
    /\ remaining = 0
    /\ scanned = 0
    /\ reqs = {}
    /\ lastOp = "none"
    /\ connectCount = 0
    /\ disconnectCount = 0
    /\ hasMail = FALSE
    /\ loggedIn = FALSE
    /\ fetchCalls = 0
    /\ password = "unset"
    /\ caught = "none"
    /\ exitCode = -1
    /\ fileState = [state |-> "untouched", rows |-> << >>]
    /\ fetched = << >>
    /\ counted = << >>

MailIdle ==
    /\ pc = "idle"
    /\ limit = 0
    /\ MailFresh

NoResults ==
    /\ results = << >>
    /\ threshold = 0
    /\ getCalls = 0

LinkedInIdle ==
    /\ liInput = << >>
    /\ liOut = [state |-> "idle", contacts |-> << >>]

-----------------------------------------------------------------------------
(* SpecAgg: any sequence of _update_contact calls on a fresh extractor *)

InitAgg ==
    /\ owner \in OwnerForms
    /\ contacts = << >>
    /\ obsLog = << >>
    /\ lastRaised = FALSE
    /\ NoResults
    /\ MailIdle
    /\ LinkedInIdle

Observe ==
    /\ Len(obsLog) < MaxObs
    /\ \E name \in ObsNames, addr \in ObsAddrs, date \in ObsDates, is_sent \in BOOLEAN :
          LET r == UpdateContact(contacts, owner, name, addr, date, is_sent) IN
          /\ contacts' = r.contacts
          /\ lastRaised' = r.raised
          /\ obsLog' = Append(obsLog, [name |-> name, addr |-> addr, date |-> date,
                                       is_sent |-> is_sent])
    /\ UNCHANGED << owner, rankVars, mailVars, liVars >>

NextAgg == Observe

SpecAgg == InitAgg /\ [][NextAgg]_vars

-----------------------------------------------------------------------------
(* Claims about the aggregator, checked under SpecAgg *)

\* the logged observations of the address stored under key k, in call order
ObservationsOf(k) == SelectSeq(obsLog, LAMBDA o : Lower(o.addr) = k)

\* the instant a parsed date denotes
Instant(d) == d.wall - d.off

\* C1: after any sequence of _update_contact observations the contacts map holds
\* no entry whose key equals the mailbox owner's address compared
\* case-insensitively, whatever the letter case and role of the observed address.
C1_NoOwnerEntry ==
    \A i \in 1..Len(contacts) : Lower(contacts[i].key) # Lower(owner)

\* the owner's address was observed in a letter case other than the typed one,
\* in both roles, and a correspondent was recorded
C1_Witness ==
    /\ Len(contacts) >= 1
    /\ \E j \in 1..Len(obsLog) :
          /\ obsLog[j].addr # owner
          /\ Lower(obsLog[j].addr) = Lower(owner)

\* C4: after any sequence of observations of an address its first_seen is the
\* earliest and its last_seen the latest of the parsed dates those observations
\* carried, both are None exactly when none carried a parseable date, and no
\* observation makes _update_contact raise, for every date _parse_date returns.
C4_DatesTracked ==
    /\ ~lastRaised
    /\ \A i \in 1..Len(contacts) :
          LET c == contacts[i]
              O == ObservationsOf(c.key)
              D == { O[j].date : j \in { n \in 1..Len(O) : O[n].date # NoDate } }
          IN  /\ (D = {}) <=> (c.first_seen = NoDate)
              /\ (D = {}) <=> (c.last_seen = NoDate)
              /\ D # {} =>
                    /\ c.first_seen \in D
                    /\ c.last_seen \in D
                    /\ \A d \in D : /\ Instant(c.first_seen) <= Instant(d)
                                    /\ Instant(d) <= Instant(c.last_seen)

\* the stored name of every entry is the first observed name of maximal length
C5_FirstLongest ==
    \A i \in 1..Len(contacts) :
        LET c == contacts[i]
            O == ObservationsOf(c.key)
        IN  IF \A j \in 1..Len(O) : O[j].name = << >>
            THEN c.name = << >>
            ELSE \E j \in 1..Len(O) :
                    /\ O[j].name = c.name
                    /\ \A m \in 1..Len(O) : Len(O[m].name) <= Len(c.name)
                    /\ \A m \in 1..(j - 1) : Len(O[m].name) < Len(c.name)

\* the name stored under key k in dict cs, empty when k has no entry
StoredName(cs, k) == IF HasKey(cs, k) THEN cs[IndexOf(cs, k)].name ELSE << >>

\* one observation replaces the stored name iff its name is non-empty and
\* strictly longer, and changes no other entry's name
C5_ReplaceRule ==
    obsLog' # obsLog =>
        LET o == obsLog'[Len(obsLog')] IN
        \A i \in 1..Len(contacts') :
            LET k == contacts'[i].key
                before == StoredName(contacts, k)
                after == contacts'[i].name
            IN  IF Lower(o.addr) = k
                THEN /\ after = IF o.name # << >> /\ Len(o.name) > Len(before)
                                THEN o.name ELSE before
                     /\ Len(after) >= Len(before)
                ELSE after = before

\* C5: on each observation of an address the stored name is replaced iff the new
\* name is non-empty and strictly longer than the stored one; so the stored name
\* is always the first-seen name among those of maximal length (empty if every
\* observed name was empty), and its length never decreases.
C5_NameRetention == [](C5_FirstLongest) /\ [][C5_ReplaceRule]_vars

\* an address was observed under two different names of equal length, and
\* another observation carried a longer name than one seen before it
C5_Witness ==
    \E i \in 1..Len(contacts) :
        LET O == ObservationsOf(contacts[i].key) IN
        /\ Len(O) = 2
        /\ O[1].name # << >>
        /\ O[2].name # O[1].name
        /\ Len(O[2].name) = Len(O[1].name)

-----------------------------------------------------------------------------
(* ContactExtractor.get_contacts *)

\* data['first_seen'].isoformat() if data['first_seen'] else ''
IsoFormat(d) ==
    IF d = NoDate THEN [text |-> "", wall |-> 0, off |-> 0]
    ELSE IF d.kind = "aware" THEN [text |-> "iso+off", wall |-> d.wall, off |-> d.off]
    ELSE [text |-> "iso", wall |-> d.wall, off |-> 0]

\* the dictionary get_contacts appends for one entry of the map
ContactRow(c) ==
    [name |-> c.name,
     email |-> c.key,
     sent_count |-> c.sent_count,
     received_count |-> c.received_count,
     total_interactions |-> c.sent_count + c.received_count,
     first_seen |-> IsoFormat(c.first_seen),
     last_seen |-> IsoFormat(c.last_seen),
     domain |-> IF c.domains = {} THEN << >> ELSE CHOOSE d \in c.domains : TRUE]

\* the filter with > for >=
Included_Strict(c, min_interactions) ==
    c.sent_count + c.received_count > min_interactions

\* total >= min_interactions
Included(c, min_interactions) ==
    c.sent_count + c.received_count >= min_interactions

\* the rows of the entries that pass the filter, in the map's iteration order
RECURSIVE FilterRows(_, _)
FilterRows(cs, min_interactions) ==
    IF cs = << >> THEN << >>
    ELSE LET rest == FilterRows(Tail(cs), min_interactions) IN
         IF Included(Head(cs), min_interactions)
         THEN << ContactRow(Head(cs)) >> \o rest
         ELSE rest

\* the place of row x in a list already sorted: behind every row that does not
\* rank below it
InsertRow(sorted, x) ==
    SelectSeq(sorted, LAMBDA r : r.total_interactions >= x.total_interactions)
    \o << x >>
    \o SelectSeq(sorted, LAMBDA r : r.total_interactions < x.total_interactions)

\* results.sort(key=lambda x: x['total_interactions'], reverse=True): stable
RECURSIVE SortRows(_)
SortRows(rows) ==
    IF rows = << >> THEN << >>
    ELSE InsertRow(SortRows(SubSeq(rows, 1, Len(rows) - 1)), rows[Len(rows)])

\* get_contacts(min_interactions) on the dict cs
GetContacts(cs, min_interactions) == SortRows(FilterRows(cs, min_interactions))

-----------------------------------------------------------------------------
(* SpecRank: get_contacts on every small contacts map a scan can leave *)

\* keys of the maps, at most MaxContacts of them
RankKeyList == << << "a","@","y" >>, << "b","@","y" >>, << "c","@","z" >>,
                  << "d","@","z" >> >>
RankKeys ==
    { RankKeyList[i] : i \in 1..(IF MaxContacts < Len(RankKeyList)
                                 THEN MaxContacts ELSE Len(RankKeyList)) }

\* an entry as observations leave it: counted at least once, its own domain
RankEntries ==
    { e \in { [key |-> k, name |-> << >>, email |-> k, sent_count |-> s,
               received_count |-> r, first_seen |-> NoDate, last_seen |-> NoDate,
               domains |-> {AfterLastAt(k)}] :
                 k \in RankKeys, s \in 0..MaxCount, r \in 0..1 } :
        e.sent_count + e.received_count >= 1 }

\* the maps: entries under distinct keys, in any insertion order
RankMaps ==
    UNION { { m \in [1..n -> RankEntries] :
                \A i, j \in 1..n : i # j => m[i].key # m[j].key } :
            n \in 0..MaxContacts }

\* the thresholds tried, below and above every total
RankThresholds == (0 - 1)..(MaxCount + 2)

InitRank ==
    /\ owner \in OwnerForms
    /\ contacts \in RankMaps
    /\ obsLog = << >>
    /\ lastRaised = FALSE
    /\ NoResults
    /\ MailIdle
    /\ LinkedInIdle

GetContactsCall ==
    /\ getCalls = 0
    /\ \E t \in RankThresholds :
          /\ results' = GetContacts(contacts, t)
          /\ threshold' = t
    /\ getCalls' = getCalls + 1
    /\ UNCHANGED << owner, contacts, obsLog, lastRaised, mailVars, liVars >>

NextRank == GetContactsCall

SpecRank == InitRank /\ [][NextRank]_vars

\* what the claim says of one get_contacts call
C3_CallIsRight ==
    getCalls' # getCalls =>
        LET t == threshold'
            R == results'
            Total(c) == c.sent_count + c.received_count
        IN  /\ contacts' = contacts
            /\ \A i \in 1..Len(contacts) :
                  (Total(contacts[i]) >= t) <=>
                      (\E j \in 1..Len(R) : R[j].email = contacts[i].key)
            /\ \A j \in 1..Len(R) :
                  /\ HasKey(contacts, R[j].email)
                  /\ LET c == contacts[IndexOf(contacts, R[j].email)] IN
                     /\ R[j].sent_count = c.sent_count
                     /\ R[j].received_count = c.received_count
                     /\ R[j].total_interactions = Total(c)
            /\ \A j, m \in 1..Len(R) : j # m => R[j].email # R[m].email
            /\ \A j, m \in 1..Len(R) :
                  j < m =>
                    /\ R[j].total_interactions >= R[m].total_interactions
                    /\ R[j].total_interactions = R[m].total_interactions =>
                          IndexOf(contacts, R[j].email) < IndexOf(contacts, R[m].email)

\* C3: get_contacts(T) returns exactly the contacts with sent_count +
\* received_count >= T, each once, ordered by non-increasing
\* total_interactions, contacts of equal total kept in the map's iteration
\* order; get_contacts adds or changes no entry of the map.
C3_GetContacts == [][C3_CallIsRight]_vars

\* a call that moved the entry inserted last in front of two entries of equal,
\* smaller total, which kept their order
C3_Witness ==
    /\ getCalls = 1
    /\ Len(contacts) = 3
    /\ Len(results) = 3
    /\ results[1].email = contacts[3].key
    /\ results[2].email = contacts[1].key
    /\ results[2].total_interactions = results[3].total_interactions
    /\ results[1].total_interactions > results[2].total_interactions

-----------------------------------------------------------------------------
(* ContactExtractor._parse_email_addresses and the per-message work of     *)
(* scan_folder. A header is [ok, parts]: ok is FALSE when decode_header    *)
(* raises on it (a malformed base64 encoded word); parts are the (name,    *)
(* addr) pairs parseaddr yields for its comma-separated parts.             *)

\* msg.get(header, '') of a header the message lacks
NoHeader == [ok |-> TRUE, parts |-> << >>]

\* name.strip().strip('"').strip("'")
CleanName(name) == StripChars(StripChars(Strip(name), {"\""}), {"'"})

\* addr and '@' in addr
IsAddress(p) == p.addr # << >> /\ Contains(p.addr, << "@" >>)

\* the pairs _parse_email_addresses returns for a header that decodes
AcceptedPairs(parts) ==
    LET kept == SelectSeq(parts, IsAddress) IN
    [i \in 1..Len(kept) |->
        [name |-> CleanName(kept[i].name), addr |-> Strip(Lower(kept[i].addr))]]

\* what the loop over one header does, in order: the _update_contact calls for
\* its accepted pairs, or the raise of _parse_email_addresses
HeaderSteps(h, is_sent) ==
    IF ~h.ok
    THEN << [raise |-> TRUE, name |-> << >>, addr |-> << >>, is_sent |-> is_sent] >>
    ELSE LET pairs == AcceptedPairs(h.parts) IN
         [i \in 1..Len(pairs) |->
             [raise |-> FALSE, name |-> pairs[i].name, addr |-> pairs[i].addr,
              is_sent |-> is_sent]]

\* From with is_sent=False, then To and Cc with is_sent=True
MessageSteps(m) ==
    HeaderSteps(m.From, FALSE) \o HeaderSteps(m.To, TRUE) \o HeaderSteps(m.Cc, TRUE)

\* the steps run in order on the dict cs, up to the first one that raises
RunSteps(cs, own, steps, date) ==
    LET after[i \in 0..Len(steps)] ==
            IF i = 0 THEN [contacts |-> cs, raised |-> FALSE]
            ELSE IF after[i - 1].raised THEN after[i - 1]
            ELSE IF steps[i].raise
                 THEN [contacts |-> after[i - 1].contacts, raised |-> TRUE]
            ELSE UpdateContact(after[i - 1].contacts, own, steps[i].name,
                               steps[i].addr, date, steps[i].is_sent)
    IN  after[Len(steps)]

\* the body of the try block of scan_folder's loop on a fetched message m =
\* [From, To, Cc, Date]: the dict it leaves and whether it raised
ProcessMessage(cs, own, m) == RunSteps(cs, own, MessageSteps(m), ParseDate(m.Date))

\* 'sent' in folder.lower(): computed by scan_folder and used nowhere
IsSentFolder(folder) == Contains(Lower(folder), << "s","e","n","t" >>)

-----------------------------------------------------------------------------
(* The mail run: main(), connect, scan_all, scan_folder, export_csv,        *)
(* disconnect                                                              *)

\* priority_folders of scan_all
PriorityFolders ==
    << << "I","N","B","O","X" >>,
       << "[","G","m","a","i","l","]","/","S","e","n","t"," ","M","a","i","l" >>,
       << "[","G","m","a","i","l","]","/","A","l","l"," ","M","a","i","l" >>,
       << "S","e","n","t" >>,
       << "S","e","n","t"," ","I","t","e","m","s" >>,
       << "S","e","n","t"," ","M","e","s","s","a","g","e","s" >> >>

NumFolders == Len(PriorityFolders)

\* the next folder of the for loop whose lower-cased name is not in
\* scanned_folders; NumFolders + 1 when the loop is over
NextFolderIdx(i, sf) ==
    LET todo == { j \in (i + 1)..NumFolders : Lower(PriorityFolders[j]) \notin sf }
    IN  IF todo = {} THEN NumFolders + 1
        ELSE CHOOSE j \in todo : \A k \in todo : j <= k

\* scan_all returning from inside its loop, after the first folder
PcAfterFolder_ReturnEarly(nxt) == "export"

\* where main() stands once scan_folder has returned: in the loop, or past
\* scan_all at export_csv
PcAfterFolder(nxt) == IF nxt > NumFolders THEN "export" ELSE "select"

\* a request to the mail session
Request(cmd) ==
    [cmd |-> cmd, readonly |-> FALSE, peek |-> FALSE, section |-> "", fields |-> {}]

\* self.mail.select(folder, readonly=True)
SelectRequest == [Request("SELECT") EXCEPT !.readonly = TRUE]

\* a fetch of the whole message, which also marks it seen
FetchRequest_WholeMessage == [Request("FETCH") EXCEPT !.section = "RFC822"]

\* self.mail.fetch(msg_id, '(BODY.PEEK[HEADER.FIELDS (FROM TO CC DATE)])')
FetchRequest ==
    [Request("FETCH") EXCEPT !.peek = TRUE, !.section = "HEADER.FIELDS",
                             !.fields = {"FROM", "TO", "CC", "DATE"}]

\* --limit: absent (0) or 1
LimitArgs == {0, 1}

\* --min-interactions values tried
MinInteractionsArgs == {1, 2}

\* default of get_contacts' min_interactions
DefaultMinInteractions == 1

\* extractor.get_contacts()[:10]
TopN == 10

\* message_ids[-limit:] if limit, of n ids
IdsToScan(n, lim) == IF lim # 0 /\ lim < n THEN lim ELSE n

\* an exception reaching main()'s except clauses: print, sys.exit(1), finally
Raise(kind) ==
    /\ caught' = kind
    /\ exitCode' = 1
    /\ pc' = "disconnect"

\* scan_folder returned: scan_all marks the folder scanned and goes on
FinishFolder ==
    LET sf == scannedFolders \cup { Lower(PriorityFolders[folderIdx]) }
        nxt == NextFolderIdx(folderIdx, sf)
    IN  /\ scannedFolders' = sf
        /\ folderIdx' = nxt
        /\ pc' = PcAfterFolder(nxt)

aggVars == << owner, contacts, obsLog, lastRaised >>

GetPassword ==
    /\ pc = "getpass"
    /\ \E pw \in {"", "secret"} :
          /\ password' = pw
          /\ IF pw = ""
             THEN exitCode' = 1 /\ pc' = "exit"
             ELSE exitCode' = exitCode /\ pc' = "connect"
    /\ UNCHANGED << aggVars, rankVars, liVars, limit, folderIdx, scannedFolders,
                    remaining, scanned, reqs, lastOp, connectCount, disconnectCount,
                    hasMail, loggedIn, fetchCalls, caught, fileState, fetched, counted >>

Connect ==
    /\ pc = "connect"
    /\ connectCount' = connectCount + 1
    /\ lastOp' = "connect"
    /\ \E out \in {"ok", "ssl_imap", "ssl_other", "login_imap", "login_other"} :
          /\ hasMail' = (out \in {"ok", "login_imap", "login_other"})
          /\ reqs' = IF hasMail' THEN reqs \cup {Request("LOGIN")} ELSE reqs
          /\ loggedIn' = (out = "ok")
          /\ IF out = "ok"
             THEN pc' = "list" /\ UNCHANGED << caught, exitCode >>
             ELSE Raise(IF out \in {"ssl_imap", "login_imap"} THEN "imap" ELSE "other")
    /\ UNCHANGED << aggVars, rankVars, liVars, limit, folderIdx, scannedFolders,
                    remaining, scanned, disconnectCount, fetchCalls, password,
                    fileState, fetched, counted >>

ListFolders ==
    /\ pc = "list"
    /\ reqs' = reqs \cup {Request("LIST")}
    /\ lastOp' = "list"
    /\ \E out \in {"ok", "imap", "other"} :
          IF out = "ok"
          THEN /\ scannedFolders' = {}
               /\ folderIdx' = NextFolderIdx(0, {})
               /\ pc' = PcAfterFolder(folderIdx')
               /\ UNCHANGED << caught, exitCode >>
          ELSE /\ Raise(out)
               /\ UNCHANGED << folderIdx, scannedFolders >>
    /\ UNCHANGED << aggVars, rankVars, liVars, limit, remaining, scanned,
                    connectCount, disconnectCount, hasMail, loggedIn, fetchCalls,
                    password, fileState, fetched, counted >>

SelectFolder ==
    /\ pc = "select"
    /\ reqs' = reqs \cup {SelectRequest}
    /\ lastOp' = "select"
    /\ \E out \in {"OK", "NO", "raise"} :
          IF out = "OK"
          THEN pc' = "search" /\ UNCHANGED << folderIdx, scannedFolders >>
          ELSE FinishFolder
    /\ UNCHANGED << aggVars, rankVars, liVars, limit, remaining, scanned,
                    connectCount, disconnectCount, hasMail, loggedIn, fetchCalls,
                    password, caught, exitCode, fileState, fetched, counted >>

Search ==
    /\ pc = "search"
    /\ reqs' = reqs \cup {Request("SEARCH")}
    /\ lastOp' = "search"
    /\ \E out \in {"OK", "NO", "imap", "other"} :
          CASE out = "OK" ->
                 \E n \in 0..(MaxMsgs - fetchCalls) :
                    /\ scanned' = 0
                    /\ remaining' = IdsToScan(n, limit)
                    /\ IF remaining' = 0
                       THEN FinishFolder
                       ELSE pc' = "fetch" /\ UNCHANGED << folderIdx, scannedFolders >>
                    /\ UNCHANGED << caught, exitCode >>
            [] out = "NO" ->
                 /\ FinishFolder
                 /\ UNCHANGED << remaining, scanned, caught, exitCode >>
            [] OTHER ->
                 /\ Raise(out)
                 /\ UNCHANGED << remaining, scanned, folderIdx, scannedFolders >>
    /\ UNCHANGED << aggVars, rankVars, liVars, limit, connectCount, disconnectCount,
                    hasMail, loggedIn, fetchCalls, password, fileState, fetched,
                    counted >>

\* one turn of scan_folder's loop, the message drawn from msgs
Fetch(msgs) ==
    /\ pc = "fetch"
    /\ remaining > 0
    /\ reqs' = reqs \cup {FetchRequest}
    /\ lastOp' = "fetch"
    /\ fetchCalls' = fetchCalls + 1
    /\ \/ \E out \in {"NO", "raise", "nodata"} :
             UNCHANGED << contacts, scanned, fetched, counted >>
       \/ \E m \in msgs :
             LET r == ProcessMessage(contacts, owner, m) IN
             /\ contacts' = r.contacts
             /\ fetched' = Append(fetched, m)
             /\ counted' = IF r.raised THEN counted ELSE Append(counted, m)
             /\ scanned' = IF r.raised THEN scanned ELSE scanned + 1
    /\ remaining' = remaining - 1
    /\ IF remaining' = 0
       THEN FinishFolder
       ELSE UNCHANGED << pc, folderIdx, scannedFolders >>
    /\ UNCHANGED << owner, obsLog, lastRaised, rankVars, liVars, limit, connectCount,
                    disconnectCount, hasMail, loggedIn, password, caught, exitCode,
                    fileState >>

\* export_csv, first statement: contacts = self.get_contacts(min_interactions)
Export ==
    /\ pc = "export"
    /\ \E t \in MinInteractionsArgs :
          /\ results' = GetContacts(contacts, t)
          /\ threshold' = t
    /\ getCalls' = getCalls + 1
    /\ pc' = "open"
    /\ UNCHANGED << aggVars, liVars, limit, folderIdx, scannedFolders, remaining,
                    scanned, reqs, lastOp, connectCount, disconnectCount, hasMail,
                    loggedIn, fetchCalls, password, caught, exitCode, fileState,
                    fetched, counted >>

\* export_csv, the with block: open(filepath, 'w'), header and rows
OpenFile ==
    /\ pc = "open"
    /\ \E out \in {"ok", "oserror"} :
          IF out = "ok"
          THEN /\ fileState' = [state |-> "written", rows |-> results]
               /\ pc' = "top10"
               /\ UNCHANGED << caught, exitCode >>
          ELSE /\ fileState' = [state |-> "open_failed", rows |-> << >>]
               /\ Raise("other")
    /\ UNCHANGED << aggVars, rankVars, liVars, limit, folderIdx, scannedFolders,
                    remaining, scanned, reqs, lastOp, connectCount, disconnectCount,
                    hasMail, loggedIn, fetchCalls, password, fetched, counted >>

\* the summary main() prints: extractor.get_contacts()[:10]
Top10 ==
    /\ pc = "top10"
    /\ LET all == GetContacts(contacts, DefaultMinInteractions) IN
       results' = SubSeq(all, 1, IF Len(all) < TopN THEN Len(all) ELSE TopN)
    /\ threshold' = DefaultMinInteractions
    /\ getCalls' = getCalls + 1
    /\ pc' = "disconnect"
    /\ UNCHANGED << aggVars, liVars, limit, folderIdx, scannedFolders, remaining,
                    scanned, reqs, lastOp, connectCount, disconnectCount, hasMail,
                    loggedIn, fetchCalls, password, caught, exitCode, fileState,
                    fetched, counted >>

\* the exit status if an error of logout reached main()
ExitAfterDisconnect_Propagate(code, out) ==
    IF out = "raise" THEN 1 ELSE IF code = -1 THEN 0 ELSE code

\* the exit status once the finally clause is through: 0 unless sys.exit(1) ran
ExitAfterDisconnect(code, out) == IF code = -1 THEN 0 ELSE code

\* the finally clause: disconnect(), whose bare except swallows what
\* self.mail.logout() raises (an AttributeError when self.mail was never set)
Disconnect ==
    /\ pc = "disconnect"
    /\ disconnectCount' = disconnectCount + 1
    /\ lastOp' = "disconnect"
    /\ reqs' = IF hasMail THEN reqs \cup {Request("LOGOUT")} ELSE reqs
    /\ \E out \in {"ok", "raise"} :
          exitCode' = ExitAfterDisconnect(exitCode, IF hasMail THEN out ELSE "raise")
    /\ pc' = "exit"
    /\ UNCHANGED << aggVars, rankVars, liVars, limit, folderIdx, scannedFolders,
                    remaining, scanned, connectCount, hasMail, loggedIn, fetchCalls,
                    password, caught, fileState, fetched, counted >>

\* messages of the mailbox in a whole run
AddrA == << "A","@","Y" >>
AddrB == << "b","@","z" >>
AwareDateHeader == RfcDateHeader(TRUE, 2, TRUE, 0, TRUE)
NaiveDateHeader == RfcDateHeader(TRUE, 2, FALSE, 0, FALSE)
Header(parts) == [ok |-> TRUE, parts |-> parts]
Pair(name, addr) == [name |-> name, addr |-> addr]

MainMessages ==
    { [From |-> Header(<< Pair(<< "A","l" >>, AddrA) >>),
       To |-> Header(<< Pair(<< >>, << "M","E","@","x" >>) >>),
       Cc |-> NoHeader, Date |-> AwareDateHeader],
      [From |-> Header(<< Pair(<< >>, << "m","e","@","x" >>) >>),
       To |-> Header(<< Pair(<< "J","o" >>, << "a","@","y" >>) >>),
       Cc |-> Header(<< Pair(<< >>, AddrB) >>), Date |-> NaiveDateHeader],
      [From |-> Header(<< Pair(<< >>, AddrB) >>),
       To |-> [ok |-> FALSE, parts |-> << >>],
       Cc |-> NoHeader, Date |-> JunkDateHeader] }

FetchMain == Fetch(MainMessages)

Init ==
    /\ owner \in OwnerForms
    /\ contacts = << >>
    /\ obsLog = << >>
    /\ lastRaised = FALSE
    /\ NoResults
    /\ pc = "getpass"
    /\ limit \in LimitArgs
    /\ MailFresh
    /\ LinkedInIdle

Next ==
    \/ GetPassword
    \/ Connect
    \/ ListFolders
    \/ SelectFolder
    \/ Search
    \/ FetchMain
    \/ Export
    \/ OpenFile
    \/ Top10
    \/ Disconnect

Spec == Init /\ [][Next]_vars

-----------------------------------------------------------------------------
(* Claims about the run, checked under Spec *)

\* the lower-cased names of all priority folders
AllFoldersLower == { Lower(PriorityFolders[i]) : i \in 1..NumFolders }

\* C6: every folder selection issued to the mail session is read-only and every
\* fetch requests only the header fields From, To, Cc and Date with a peek
\* fetch; no request that retrieves a body or changes mailbox state is issued.
C6_HeadersOnlyReadOnly ==
    \A r \in reqs :
        /\ r.cmd \in {"LOGIN", "LIST", "SELECT", "SEARCH", "FETCH", "LOGOUT"}
        /\ r.cmd = "SELECT" => r.readonly
        /\ r.cmd = "FETCH" =>
              /\ r.peek
              /\ r.section = "HEADER.FIELDS"
              /\ r.fields = {"FROM", "TO", "CC", "DATE"}

\* a finished run that selected folders, fetched messages and logged out
C6_Witness ==
    /\ pc = "exit"
    /\ fetchCalls >= 1
    /\ \E r \in reqs : r.cmd = "SELECT"
    /\ \E r \in reqs : r.cmd = "FETCH"
    /\ \E r \in reqs : r.cmd = "LOGOUT"

\* C7: once connect and login have succeeded, no failure of a later
\* mail-session operation (list, select, search, fetch; a non-OK status or a
\* raised error) and no parsing failure ends the run: every priority folder is
\* scanned, export_csv is reached and the process does not exit with code 1.
C7_FailuresContained ==
    (pc = "exit" /\ loggedIn /\ fileState.state # "open_failed") =>
        /\ exitCode = 0
        /\ getCalls >= 1
        /\ scannedFolders = AllFoldersLower

\* C8: in a run that gets a non-empty password, connect is attempted exactly
\* once and disconnect runs exactly once after it, as the last mail-session
\* action, on every path; what logout raises is swallowed and leaves the exit
\* code as the run decided it.
C8_ConnectOnceDisconnectLast ==
    /\ connectCount <= 1
    /\ disconnectCount <= 1
    /\ disconnectCount = 1 =>
          (pc = "exit" /\ connectCount = 1 /\ lastOp = "disconnect")
    /\ (pc = "exit" /\ password = "secret") =>
          /\ connectCount = 1
          /\ disconnectCount = 1
          /\ lastOp = "disconnect"
          /\ exitCode = IF caught = "none" THEN 0 ELSE 1

\* a run whose connect failed before self.mail was set, and which still ran
\* disconnect and ended
C8_Witness ==
    /\ pc = "exit"
    /\ password = "secret"
    /\ ~hasMail
    /\ caught = "imap"
    /\ disconnectCount = 1

\* C9: the output file is opened for writing only after scan_all has finished
\* with every priority folder and get_contacts has built the filtered, sorted
\* list; a run that fails before that point never creates or truncates it.
C9_FileAfterScanAndRank ==
    /\ pc \in {"getpass", "connect", "list", "select", "search", "fetch", "export"} =>
          fileState.state = "untouched"
    /\ fileState.state # "untouched" =>
          /\ folderIdx > NumFolders
          /\ scannedFolders = AllFoldersLower
          /\ getCalls >= 1
    /\ fileState.state = "written" =>
          /\ caught = "none"
          /\ \E t \in MinInteractionsArgs : fileState.rows = GetContacts(contacts, t)
    /\ exitCode = 1 => fileState.state \in {"untouched", "open_failed"}

\* a run that scanned messages and wrote their contacts to the file
C9_Witness ==
    /\ fileState.state = "written"
    /\ Len(fileState.rows) >= 1
    /\ Len(counted) >= 1

-----------------------------------------------------------------------------
(* SpecScan: scan_all's loop on a connected extractor, over every mailbox of *)
(* at most MaxMsgs messages drawn from ScanMessages                         *)

ScanFromHeaders ==
    { NoHeader,
      Header(<< Pair(<< "A","l" >>, AddrA) >>),
      Header(<< Pair(<< >>, << "M","E","@","x" >>) >>) }

ScanToHeaders ==
    { NoHeader,
      Header(<< Pair(<< >>, AddrB), Pair(<< >>, << "n","o","b","o","d","y" >>) >>),
      Header(<< Pair(<< "J","o" >>, << "a","@","y" >>),
                Pair(<< >>, << "M","e","@","X" >>) >>),
      [ok |-> FALSE, parts |-> << >>] }

ScanCcHeaders ==
    { NoHeader, Header(<< Pair(<< >>, << "a","@","y" >>) >>) }

ScanDateHeaders == { EmptyDateHeader, AwareDateHeader, NaiveDateHeader }

ScanMessages ==
    [From : ScanFromHeaders, To : ScanToHeaders, Cc : ScanCcHeaders,
     Date : ScanDateHeaders]

FetchScan == Fetch(ScanMessages)

\* the extractor after connect() and self.mail.list() succeeded
InitScan ==
    /\ owner \in OwnerForms
    /\ contacts = << >>
    /\ obsLog = << >>
    /\ lastRaised = FALSE
    /\ NoResults
    /\ pc = "select"
    /\ limit \in LimitArgs
    /\ folderIdx = NextFolderIdx(0, {})
    /\ scannedFolders = {}
    /\ remaining = 0
    /\ scanned = 0
    /\ reqs = { Request("LOGIN"), Request("LIST") }
    /\ lastOp = "list"
    /\ connectCount = 1
    /\ disconnectCount = 0
    /\ hasMail = TRUE
    /\ loggedIn = TRUE
    /\ fetchCalls = 0
    /\ password = "secret"
    /\ caught = "none"
    /\ exitCode = -1
    /\ fileState = [state |-> "untouched", rows |-> << >>]
    /\ fetched = << >>
    /\ counted = << >>
    /\ LinkedInIdle

NextScan ==
    \/ SelectFolder
    \/ Search
    \/ FetchScan

SpecScan == InitScan /\ [][NextScan]_vars

\* occurrences of the address stored under key k in header h
CountIn(h, k) ==
    IF ~h.ok THEN 0
    ELSE Cardinality({ i \in 1..Len(h.parts) :
                         /\ IsAddress(h.parts[i])
                         /\ Strip(Lower(h.parts[i].addr)) = k })

\* occurrences of k in the From headers, and in the To and Cc headers, of msgs
RECURSIVE FromOccurrences(_, _)
FromOccurrences(msgs, k) ==
    IF msgs = << >> THEN 0
    ELSE CountIn(Head(msgs).From, k) + FromOccurrences(Tail(msgs), k)

RECURSIVE ToCcOccurrences(_, _)
ToCcOccurrences(msgs, k) ==
    IF msgs = << >> THEN 0
    ELSE CountIn(Head(msgs).To, k) + CountIn(Head(msgs).Cc, k)
         + ToCcOccurrences(Tail(msgs), k)

\* every non-owner address of the headers of msgs, lower-cased
AddressesIn(msgs) ==
    { k \in UNION { { Strip(Lower(h.parts[i].addr)) : i \in 1..Len(h.parts) } :
                    h \in UNION { { msgs[n].From, msgs[n].To, msgs[n].Cc } :
                                  n \in 1..Len(msgs) } } :
        Contains(k, << "@" >>) /\ k # Lower(owner) }

ReceivedCount(k) ==
    IF HasKey(contacts, k) THEN contacts[IndexOf(contacts, k)].received_count ELSE 0

SentCount(k) ==
    IF HasKey(contacts, k) THEN contacts[IndexOf(contacts, k)].sent_count ELSE 0

\* the counters agree with the headers of the messages msgs
CountsMatch(msgs) ==
    \A k \in AddressesIn(fetched) \cup { contacts[i].key : i \in 1..Len(contacts) } :
        /\ ReceivedCount(k) = FromOccurrences(msgs, k)
        /\ SentCount(k) = ToCcOccurrences(msgs, k)

\* C2: after scanning any sequence of folders, for every non-owner address
\* receivedCount equals the number of its occurrences in From headers of the
\* scanned messages and sentCount the number of its occurrences in To and Cc
\* headers, whatever the folder; a message in two folders counts once per
\* folder. The scanned messages are read as the ones scan_folder counted or,
\* failing that, as the ones it fetched.
C2_CountsAreOccurrences == CountsMatch(counted) \/ CountsMatch(fetched)

\* the counters stored under key k in the contacts map cs, 0 without an entry
ReceivedIn(cs, k) ==
    IF HasKey(cs, k) THEN cs[IndexOf(cs, k)].received_count ELSE 0

SentIn(cs, k) ==
    IF HasKey(cs, k) THEN cs[IndexOf(cs, k)].sent_count ELSE 0

\* one turn of scan_folder's loop: a turn that does not raise the scanned
\* total leaves the contacts map as it was, and a turn that raises it has
\* added every From, To and Cc occurrence of the message just fetched
C11_MessageStep ==
    fetchCalls' = fetchCalls + 1 =>
        /\ scanned' = scanned => contacts' = contacts
        /\ scanned' = scanned + 1 =>
              /\ Len(fetched') = Len(fetched) + 1
              /\ LET m == fetched'[Len(fetched')] IN
                 \A k \in AddressesIn(fetched') :
                    /\ ReceivedIn(contacts', k)
                          = ReceivedIn(contacts, k) + CountIn(m.From, k)
                    /\ SentIn(contacts', k)
                          = SentIn(contacts, k) + CountIn(m.To, k) + CountIn(m.Cc, k)

\* C11: within scan_folder the processing of one message is all-or-nothing
\* with respect to the contacts map: a skipped message (fetch status not OK,
\* or an error raised while decoding, parsing or updating, the comparison of
\* its date with a stored date included) leaves every contact's counters,
\* name, dates and domains as they were and is not counted in the scanned
\* total; a counted message has contributed all its From, To and Cc addresses.
C11_AllOrNothing == [][C11_MessageStep]_vars

-----------------------------------------------------------------------------
(* parse_linkedin_export. The export text is a sequence of lines, a line    *)
(* the sequence of its comma-separated cells (no cell holds a comma, a      *)
(* quote or a line break); the empty line has no cell.                     *)

\* column-name spellings of each field, in the order row.get tries them
FirstNameKeys == << << "F","i","r","s","t"," ","N","a","m","e" >>, << "f","i","r","s","t","_","n","a","m","e" >> >>
LastNameKeys == << << "L","a","s","t"," ","N","a","m","e" >>, << "l","a","s","t","_","n","a","m","e" >> >>
EmailKeys == << << "E","m","a","i","l"," ","A","d","d","r","e","s","s" >>, << "E","m","a","i","l" >>, << "e","m","a","i","l" >> >>
CompanyKeys == << << "C","o","m","p","a","n","y" >>, << "c","o","m","p","a","n","y" >> >>
PositionKeys == << << "P","o","s","i","t","i","o","n" >>, << "p","o","s","i","t","i","o","n" >> >>
ConnectedOnKeys == << << "C","o","n","n","e","c","t","e","d"," ","O","n" >>, << "c","o","n","n","e","c","t","e","d","_","o","n" >> >>
UrlKeys == << << "U","R","L" >>, << "P","r","o","f","i","l","e"," ","U","R","L" >>, << "u","r","l" >> >>

\* a line that content.strip() removes at either end of the text
IsBlankLine(l) == Len(l) = 0 \/ (Len(l) = 1 /\ Strip(l[1]) = << >>)

\* s.lstrip()
LStrip(s) ==
    LET keep == { i \in 1..Len(s) : s[i] # " " } IN
    IF keep = {} THEN << >>
    ELSE SubSeq(s, CHOOSE i \in keep : \A j \in keep : i <= j, Len(s))

\* s.rstrip()
RStrip(s) ==
    LET keep == { i \in 1..Len(s) : s[i] # " " } IN
    IF keep = {} THEN << >>
    ELSE SubSeq(s, 1, CHOOSE i \in keep : \A j \in keep : j <= i)

\* content.strip().split('\n'): blank lines at both ends go, and the blanks
\* before the first and after the last character
StripText(lines) ==
    LET keep == { i \in 1..Len(lines) : ~IsBlankLine(lines[i]) } IN
    IF keep = {} THEN << << >> >>
    ELSE LET lo == CHOOSE i \in keep : \A j \in keep : i <= j
             hi == CHOOSE i \in keep : \A j \in keep : j <= i
             body == SubSeq(lines, lo, hi)
             left == [body EXCEPT ![1] = [@ EXCEPT ![1] = LStrip(@)]]
         IN  [left EXCEPT ![Len(left)] = [@ EXCEPT ![Len(@)] = RStrip(@)]]

\* sub in line
LineContains(l, sub) == \E i \in 1..Len(l) : Contains(l[i], sub)

\* 'First Name' in line or 'Email' in line
IsHeaderLine(l) ==
    \/ LineContains(l, << "F","i","r","s","t"," ","N","a","m","e" >>)
    \/ LineContains(l, << "E","m","a","i","l" >>)

\* header_idx: the first such line, 0-based line 0 when there is none
HeaderIdx(lines) ==
    LET hits == { i \in 1..Len(lines) : IsHeaderLine(lines[i]) } IN
    IF hits = {} THEN 1 ELSE CHOOSE i \in hits : \A j \in hits : i <= j

\* the rows csv.DictReader yields after its header row: it skips empty rows
DataRows(lines) ==
    SelectSeq(SubSeq(lines, HeaderIdx(lines) + 1, Len(lines)), LAMBDA l : l # << >>)

\* None, as the value of a key of the row
NoneValue == [none |-> TRUE, text |-> << >>]

Text(t) == [none |-> FALSE, text |-> t]

\* row[key] of the dict DictReader builds: dict(zip(fieldnames, row)), then
\* restval None under every field name past the end of the row
RowValue(fieldnames, row, key) ==
    LET at == { i \in 1..Len(fieldnames) : fieldnames[i] = key }
        last == CHOOSE i \in at : \A j \in at : j <= i
    IN  IF last > Len(row) THEN NoneValue ELSE Text(row[last])

\* row.get(keys[1], row.get(keys[2], ... '')): the value under the first
\* spelling the row has as a key, and '' when it has none
RowGet(fieldnames, row, keys) ==
    LET present == { j \in 1..Len(keys) :
                       \E i \in 1..Len(fieldnames) : fieldnames[i] = keys[j] }
    IN  IF present = {} THEN Text(<< >>)
        ELSE RowValue(fieldnames, row,
                      keys[CHOOSE j \in present : \A m \in present : j <= m])

\* length of the domain label
DomainLabelLen == 20

\* s.replace(c, '')
Without(s, c) == SelectSeq(s, LAMBDA x : x # c)

\* company.lower().replace(' ', '').replace(',', '')[:20]
DomainLabel(company) ==
    LET d == Without(Without(Lower(company), " "), ",") IN
    SubSeq(d, 1, IF Len(d) < DomainLabelLen THEN Len(d) ELSE DomainLabelLen)

\* Connected On values strptime accepts, with their isoformat()
ConnectedDates ==
    { [raw |-> << "2","0","2","4","-","0","1","-","0","5" >>,
       iso |-> << "2","0","2","4","-","0","1","-","0","5","T","0","0",":","0","0",
                  ":","0","0" >>] }

\* conn_date.isoformat() if conn_date else connected_on
ConnectedOn(raw) ==
    IF \E d \in ConnectedDates : d.raw = raw
    THEN (CHOOSE d \in ConnectedDates : d.raw = raw).iso
    ELSE raw

\* one turn of the loop over the reader: whether .strip() raised on a None,
\* whether the row is kept, and the contact appended for it
ParseRow(fieldnames, row) ==
    LET first_name == RowGet(fieldnames, row, FirstNameKeys)
        last_name == RowGet(fieldnames, row, LastNameKeys)
        email == RowGet(fieldnames, row, EmailKeys)
        company == RowGet(fieldnames, row, CompanyKeys)
        position == RowGet(fieldnames, row, PositionKeys)
        connected_on == RowGet(fieldnames, row, ConnectedOnKeys)
        url == RowGet(fieldnames, row, UrlKeys)
        fn == Strip(first_name.text)
        ln == Strip(last_name.text)
    IN  [raised |-> \E v \in { first_name, last_name, email, company, position,
                               connected_on, url } : v.none,
         keep |-> ~(fn = << >> /\ ln = << >>),
         contact |->
            [name |-> Strip(fn \o << " " >> \o ln),
             first_name |-> fn,
             last_name |-> ln,
             email |-> Strip(email.text),
             company |-> Strip(company.text),
             position |-> Strip(position.text),
             domain |-> DomainLabel(Strip(company.text)),
             connected_on |-> ConnectedOn(Strip(connected_on.text)),
             linkedin_url |-> Strip(url.text),
             source |-> "linkedin"]]

\* parse_linkedin_export on the text: "returned" with the contacts, or
\* "raised" when a row made it raise
ParseLinkedIn(text) ==
    LET lines == StripText(text)
        fieldnames == lines[HeaderIdx(lines)]
        rows == DataRows(lines)
        after[i \in 0..Len(rows)] ==
            IF i = 0 THEN [state |-> "returned", contacts |-> << >>]
            ELSE IF after[i - 1].state = "raised" THEN after[i - 1]
            ELSE LET r == ParseRow(fieldnames, rows[i]) IN
                 IF r.raised THEN [state |-> "raised", contacts |-> << >>]
                 ELSE IF r.keep
                      THEN [state |-> "returned",
                            contacts |-> Append(after[i - 1].contacts, r.contact)]
                 ELSE after[i - 1]
    IN  after[Len(rows)]

-----------------------------------------------------------------------------
(* SpecLinkedIn: parse_linkedin_export on every text of at most MaxLines    *)
(* lines drawn from ExportLines                                            *)

\* two header rows, a preamble line, full, short, nameless, blank-named,
\* empty and over-long rows
ExportLines ==
    { << << "F","i","r","s","t"," ","N","a","m","e" >>, << "L","a","s","t"," ","N","a","m","e" >>, << "E","m","a","i","l"," ","A","d","d","r","e","s","s" >>, << "C","o","m","p","a","n","y" >> >>,
      << << "f","i","r","s","t","_","n","a","m","e" >>, << "C","o","m","p","a","n","y" >> >>,
      << << "N","o","t","e","s",":" >> >>,
      << << "J","o" >>, << "A","n","n" >>, << "j","@","x" >>, << "A","c","m","e"," ","I","n","c" >> >>,
      << << "J","o" >> >>,
      << << >>, << >>, << >>, << "A","c","m","e"," ","I","n","c" >> >>,
      << << " " >>, << "A","n","n" >> >>,
      << >>,
      << << "A","l" >>, << >>, << >>, << >>, << "e","x","t","r","a" >> >> }

ExportTexts == UNION { [1..n -> ExportLines] : n \in 0..MaxLines }

InitLinkedIn ==
    /\ owner \in OwnerForms
    /\ contacts = << >>
    /\ obsLog = << >>
    /\ lastRaised = FALSE
    /\ NoResults
    /\ MailIdle
    /\ liInput \in ExportTexts
    /\ liOut = [state |-> "idle", contacts |-> << >>]

ParseExport ==
    /\ liOut.state = "idle"
    /\ liOut' = ParseLinkedIn(liInput)
    /\ UNCHANGED << aggVars, rankVars, mailVars, liInput >>

NextLinkedIn == ParseExport

SpecLinkedIn == InitLinkedIn /\ [][NextLinkedIn]_vars

\* the field of a data row under the first spelling the header row has, the
\* empty string when the header has none or the row ends before that column
FieldOrEmpty(fieldnames, row, keys) ==
    LET cols == { i \in 1..Len(fieldnames) :
                    /\ \E j \in 1..Len(keys) :
                          /\ fieldnames[i] = keys[j]
                          /\ \A m \in 1..(j - 1) :
                                \A n \in 1..Len(fieldnames) : fieldnames[n] # keys[m]
                    /\ \A n \in (i + 1)..Len(fieldnames) : fieldnames[n] # fieldnames[i] }
    IN  IF cols = {} THEN << >>
        ELSE LET i == CHOOSE i \in cols : TRUE IN
             IF i > Len(row) THEN << >> ELSE Strip(row[i])

\* C10: for every export text parse_linkedin_export returns without raising,
\* and its result holds exactly one contact per data row whose resolved first
\* or last name is non-empty, in input row order, every field missing from
\* the row (absent column, or a row shorter than the header) resolved to the
\* empty string; rows with both names empty are dropped.
C10_RowsKeptWithFallbacks ==
    liOut.state # "idle" =>
        LET lines == StripText(liInput)
            fieldnames == lines[HeaderIdx(lines)]
            rows == DataRows(lines)
            named == SelectSeq(rows, LAMBDA r :
                        \/ FieldOrEmpty(fieldnames, r, FirstNameKeys) # << >>
                        \/ FieldOrEmpty(fieldnames, r, LastNameKeys) # << >>)
        IN  /\ liOut.state = "returned"
            /\ Len(liOut.contacts) = Len(named)
            /\ \A i \in 1..Len(named) :
                  LET c == liOut.contacts[i] IN
                  /\ c.first_name = FieldOrEmpty(fieldnames, named[i], FirstNameKeys)
                  /\ c.last_name = FieldOrEmpty(fieldnames, named[i], LastNameKeys)
                  /\ c.email = FieldOrEmpty(fieldnames, named[i], EmailKeys)
                  /\ c.company = FieldOrEmpty(fieldnames, named[i], CompanyKeys)
                  /\ c.position = FieldOrEmpty(fieldnames, named[i], PositionKeys)
                  /\ c.linkedin_url = FieldOrEmpty(fieldnames, named[i], UrlKeys)

====
